---- MODULE Spec2Model ----
(***************************************************************************)
(* A state-machine model of src/Script.js, the page interaction script:    *)
(* the element cache and init, the debounced scroll handlers, the mobile   *)
(* menu, the category filter with its delayed hide timers, the loader, the *)
(* contact form and the lazy image loader.                                 *)
(*                                                                         *)
(* Time is in milliseconds.  The browser's timer queue is the sequence     *)
(* `timers`, in arming order; each pending timer carries the time left    *)
(* until it is due.  Time never passes a due timer: a due timer's callback *)
(* runs before the clock moves on.  Input events (scroll, click, submit,   *)
(* load, observer reports) reach the page between init and the teardown    *)
(* at page unload.                                                         *)
(***************************************************************************)
EXTENDS Integers, Sequences, FiniteSets, TLC

\* ---------------------------------------------------------------- CONFIG
scrollThreshold == 50
backToTopThreshold == 300
loadingDelay == 800
\* the waits handed to debounce and setTimeout
NavWait == 10
BttWait == 100
FilterDelay == 300
LoaderFade == 300

\* ---------------------------------------------------------------- bounds
MaxInits == 2
MaxTimers == 4
NumCards == 2
NumImages == 2

\* the elements looked up by id, and the NodeLists of the cache
Ids == {"loader", "navbar", "mobileToggle", "mobileMenu", "mobileClose",
        "backToTop", "contactForm"}
Lists == {"mobileLinks", "filterBtns", "bikeCards", "navLinks"}
\* the anonymous listeners init registers, by what they listen to
ListenerKinds == {"load", "toggle", "close", "link", "menu", "filter",
                  "bttClick", "submit"}
\* the scroll offsets tried: both sides of, and exactly on, each threshold
Offsets == {0, scrollThreshold, scrollThreshold + 1,
            backToTopThreshold, backToTopThreshold + 1}
Categories == {"trail", "sport"}
Cards == 1..NumCards
Images == 1..NumImages
\* a filter button per category, and the wildcard
Buttons == Categories \cup {"all"}

VARIABLES
  \* the document and the script's lifecycle
  present,        \* the ids the document holds
  DOM,            \* the element cache: name -> the cached reference is non-null
  inits,          \* how many times init has run
  cacheCount,     \* how many times cacheDOMElements has run
  autoPending,    \* init waits for DOMContentLoaded
  unloaded,       \* the beforeunload teardown has run
  ranBeforeCache, \* a handler or timer callback ran with the cache unpopulated
  nullDeref,      \* a handler dereferenced a null cache entry (a TypeError)
  listeners,      \* listener kind -> number of registered anonymous listeners
  scrollL,        \* the debounced handlers registered for 'scroll'
  timers,         \* pending timers, in arming order
  \* scroll effects
  scrollY, navScrolled, bttVisible,
  calls,          \* debounced handler -> it has been called at least once
  quiet,          \* debounced handler -> ms since its last call, capped at its wait
  runs,           \* debounced handler -> runs of the wrapped function since its last call
  burst,          \* debounced handler -> calls in its latest burst (no run between), capped at 2
  \* mobile menu
  menuActive, bodyOverflow, lastMenuClick,
  \* category filter
  btnActive, cardCat, display, opacity,
  lastFilter,     \* the category of the most recent filter click, or "none"
  sinceClick,     \* ms since the most recent filter click, capped at FilterDelay
  overlapped,     \* some filter click came while a hide timer was pending
  clicks,         \* filter clicks so far, capped at 2
  lastHide,       \* how the most recent hide of a card came about
  \* lazy images
  hasIO,          \* 'IntersectionObserver' in window
  dataSrc,        \* image -> its data-src: "url", "" (empty) or "removed"
  srcSet,         \* image -> how many times src was assigned from data-src, capped at 2
  targets,        \* the <<observer, image>> pairs ever observed
  observed,       \* the <<observer, image>> pairs observed now
  lastEntry,      \* the entry the observer callback handled last
  \* loader and contact form
  loaderOpacity, loaderDisplay, loadFired,
  formFilled, navigated

lifeVars == <<present, DOM, inits, cacheCount, autoPending, unloaded, listeners, scrollL>>
scrollVars == <<scrollY, navScrolled, bttVisible, calls, quiet, runs, burst>>
menuVars == <<menuActive, bodyOverflow, lastMenuClick>>
filterVars == <<btnActive, cardCat, display, opacity, lastFilter, overlapped, clicks, lastHide>>
lazyVars == <<hasIO, dataSrc, srcSet, targets, observed, lastEntry>>
loaderVars == <<loaderOpacity, loaderDisplay, loadFired>>
formVars == <<formFilled, navigated>>
vars == <<lifeVars, ranBeforeCache, nullDeref, timers, scrollVars, menuVars,
          filterVars, sinceClick, lazyVars, loaderVars, formVars>>

Min(a, b) == IF a < b THEN a ELSE b

\* ---------------------------------------------------------------- timers
\* A pending timer: fn names the callback, rem the ms left, arg the card a
\* hide timer hides.  For a debounce timer, flag says the closure's `timeout`
\* variable holds this timer's id; for a hide timer, flag says a later filter
\* click has happened since it was armed.
Timer(fn, rem, arg, flag) == [fn |-> fn, rem |-> rem, arg |-> arg, flag |-> flag]

Pending(fn) == {i \in 1..Len(timers) : timers[i].fn = fn}

\* clearTimeout(timeout): cancels the timer the closure variable names, if it is
\* still pending
clearTimeout(fn, tms) == SelectSeq(tms, LAMBDA t : ~(t.fn = fn /\ t.flag))

\* timeout = setTimeout(...): the closure variable now names the new timer only
setTimeoutDebounce(fn, wait, tms) ==
  Append([i \in 1..Len(tms) |->
            IF tms[i].fn = fn THEN [tms[i] EXCEPT !.flag = FALSE] ELSE tms[i]],
         Timer(fn, wait, 0, TRUE))

debounceNoClear(fn, wait, tms) == setTimeoutDebounce(fn, wait, tms)

\* one call of the function debounce returns
debounce(fn, wait, tms) == setTimeoutDebounce(fn, wait, clearTimeout(fn, tms))

Wait(fn) == IF fn = "nav" THEN NavWait ELSE BttWait

\* the first due timer, in arming order (0 when none is due)
FirstDue ==
  IF \E i \in 1..Len(timers) : timers[i].rem = 0
  THEN CHOOSE i \in 1..Len(timers) :
         /\ timers[i].rem = 0
         /\ \A j \in 1..(i - 1) : timers[j].rem # 0
  ELSE 0

Remove(tms, i) == [j \in 1..(Len(tms) - 1) |-> IF j < i THEN tms[j] ELSE tms[j + 1]]

\* a handler or timer callback runs
Ran == ranBeforeCache' = (ranBeforeCache \/ cacheCount = 0)

\* the page takes input events between init and the teardown
Live == inits >= 1 /\ ~unloaded

\* ------------------------------------------------------------------ init
cacheDOMElements == [n \in Ids \cup Lists |-> IF n \in Ids THEN n \in present ELSE TRUE]

\* which anonymous listeners one run of init registers, given the cache
Registers(k, dom) ==
  CASE k = "load" -> TRUE
    [] k = "toggle" -> dom["mobileToggle"]
    [] k = "close" -> dom["mobileClose"]
    [] k = "link" -> dom["mobileLinks"]
    [] k = "menu" -> dom["mobileMenu"]
    [] k = "filter" -> dom["filterBtns"]
    [] k = "bttClick" -> dom["backToTop"]
    [] k = "submit" -> dom["contactForm"]

\* initLazyLoading: a new observer, observing every image that has data-src
initLazyLoading(obs) ==
  IF hasIO
  THEN {<<obs, img>> : img \in {x \in Images : dataSrc[x] # "removed"}}
  ELSE {}

init ==
  /\ DOM' = cacheDOMElements
  /\ cacheCount' = cacheCount + 1
  /\ inits' = inits + 1
  /\ listeners' = [k \in ListenerKinds |->
                     IF Registers(k, DOM') THEN listeners[k] + 1 ELSE listeners[k]]
  /\ scrollL' = scrollL \cup {"nav"} \cup (IF DOM'["backToTop"] THEN {"btt"} ELSE {})
  /\ observed' = observed \cup initLazyLoading(inits + 1)
  /\ targets' = targets \cup initLazyLoading(inits + 1)

\* DOMContentLoaded: the automatic invocation
AutoInit ==
  /\ autoPending /\ ~unloaded /\ inits < MaxInits
  /\ autoPending' = FALSE
  /\ init
  /\ UNCHANGED <<present, unloaded, ranBeforeCache, nullDeref, timers, scrollVars,
                 menuVars, filterVars, sinceClick, hasIO, dataSrc, srcSet, lastEntry,
                 loaderVars, formVars>>

\* a module user calls the exported init
UserInit ==
  /\ ~unloaded /\ inits < MaxInits
  /\ init
  /\ UNCHANGED <<present, autoPending, unloaded, ranBeforeCache, nullDeref, timers,
                 scrollVars, menuVars, filterVars, sinceClick, hasIO, dataSrc, srcSet,
                 lastEntry, loaderVars, formVars>>

\* beforeunload: the two scroll listeners are removed; the sweep over
\* data-timeout-id clears nothing, as no element carries that attribute
BeforeUnload ==
  /\ Live
  /\ unloaded' = TRUE
  /\ scrollL' = {}
  /\ Ran
  /\ UNCHANGED <<present, DOM, inits, cacheCount, autoPending, listeners, nullDeref,
                 timers, scrollVars, menuVars, filterVars, sinceClick, lazyVars,
                 loaderVars, formVars>>

\* ---------------------------------------------------------------- scroll
\* the listeners of 'scroll' run in registration order: each is a debounced call
RECURSIVE CallAll(_, _)
CallAll(fns, tms) ==
  IF fns = {} THEN tms
  ELSE LET fn == IF "nav" \in fns THEN "nav" ELSE "btt"
       IN CallAll(fns \ {fn}, debounce(fn, Wait(fn), tms))

\* the page scrolls to offset y and the scroll event is dispatched
ScrollTo(y) ==
  /\ scrollY' = y
  /\ timers' = CallAll(scrollL, timers)
  /\ calls' = [fn \in {"nav", "btt"} |-> calls[fn] \/ fn \in scrollL]
  /\ quiet' = [fn \in {"nav", "btt"} |-> IF fn \in scrollL THEN 0 ELSE quiet[fn]]
  /\ runs' = [fn \in {"nav", "btt"} |-> IF fn \in scrollL THEN 0 ELSE runs[fn]]
  /\ burst' = [fn \in {"nav", "btt"} |->
                IF fn \notin scrollL THEN burst[fn]
                ELSE IF Pending(fn) = {} THEN 1 ELSE Min(burst[fn] + 1, 2)]
  /\ ranBeforeCache' = (ranBeforeCache \/ (scrollL # {} /\ cacheCount = 0))

Scroll(y) ==
  /\ Live /\ y # scrollY
  /\ Len(CallAll(scrollL, timers)) <= MaxTimers
  /\ ScrollTo(y)
  /\ UNCHANGED <<lifeVars, nullDeref, navScrolled, bttVisible, menuVars, filterVars,
                 sinceClick, lazyVars, loaderVars, formVars>>

\* the click listener of the back-to-top button: window.scrollTo({top: 0})
BackToTopClick ==
  /\ Live /\ listeners["bttClick"] > 0 /\ scrollY # 0
  /\ Len(CallAll(scrollL, timers)) <= MaxTimers
  /\ ScrollTo(0)
  /\ UNCHANGED <<lifeVars, nullDeref, navScrolled, bttVisible, menuVars, filterVars,
                 sinceClick, lazyVars, loaderVars, formVars>>

handleNavbarScrollGe(y, old) == IF ~DOM["navbar"] THEN old ELSE y >= scrollThreshold

\* the function wrapped by handleNavbarScroll: the class 'scrolled' afterwards
handleNavbarScroll(y, old) == IF ~DOM["navbar"] THEN old ELSE y > scrollThreshold

handleBackToTopGe(y, old) == IF ~DOM["backToTop"] THEN old ELSE y >= backToTopThreshold

\* the function wrapped by handleBackToTop: the class 'visible' afterwards
handleBackToTop(y, old) == IF ~DOM["backToTop"] THEN old ELSE y > backToTopThreshold

\* the navbar's debounce timer is due: the wrapped function runs
FireNav ==
  /\ FirstDue # 0 /\ timers[FirstDue].fn = "nav"
  /\ navScrolled' = handleNavbarScroll(scrollY, navScrolled)
  /\ runs' = [runs EXCEPT !["nav"] = Min(@ + 1, 2)]
  /\ timers' = Remove(timers, FirstDue)
  /\ Ran
  /\ UNCHANGED <<lifeVars, nullDeref, scrollY, bttVisible, calls, quiet, burst, menuVars,
                 filterVars, sinceClick, lazyVars, loaderVars, formVars>>

\* the back-to-top debounce timer is due: the wrapped function runs
FireBtt ==
  /\ FirstDue # 0 /\ timers[FirstDue].fn = "btt"
  /\ bttVisible' = handleBackToTop(scrollY, bttVisible)
  /\ runs' = [runs EXCEPT !["btt"] = Min(@ + 1, 2)]
  /\ timers' = Remove(timers, FirstDue)
  /\ Ran
  /\ UNCHANGED <<lifeVars, nullDeref, scrollY, navScrolled, calls, quiet, burst, menuVars,
                 filterVars, sinceClick, lazyVars, loaderVars, formVars>>

\* ----------------------------------------------------------- mobile menu
toggleMobileMenuKeepLock(show, m) ==
  IF ~DOM["mobileMenu"] THEN m
  ELSE IF show
       THEN [active |-> TRUE, overflow |-> "hidden", err |-> m.err]
       ELSE [active |-> FALSE, overflow |-> m.overflow, err |-> m.err]

\* toggleMobileMenu(show) on the menu's state m: the class 'active', the body's
\* overflow style, and whether a null DOM.mobileMenu was dereferenced
toggleMobileMenu(show, m) ==
  IF ~DOM["mobileMenu"] THEN m
  ELSE IF show
       THEN [active |-> TRUE, overflow |-> "hidden", err |-> m.err \/ ~DOM["mobileMenu"]]
       ELSE [active |-> FALSE, overflow |-> "", err |-> m.err \/ ~DOM["mobileMenu"]]

\* the n click listeners of one element run in turn
RECURSIVE ToggleN(_, _, _)
ToggleN(n, show, m) == IF n = 0 THEN m ELSE ToggleN(n - 1, show, toggleMobileMenu(show, m))

MenuState == [active |-> menuActive, overflow |-> bodyOverflow, err |-> nullDeref]

\* a click whose listeners (n of them) call toggleMobileMenu(show)
MenuClick(kind, n, show) ==
  /\ Live
  /\ LET m == ToggleN(n, show, MenuState)
     IN /\ menuActive' = m.active
        /\ bodyOverflow' = m.overflow
        /\ nullDeref' = m.err
  /\ lastMenuClick' = kind
  /\ ranBeforeCache' = (ranBeforeCache \/ (n > 0 /\ cacheCount = 0))
  /\ UNCHANGED <<lifeVars, timers, scrollVars, filterVars, sinceClick, lazyVars,
                 loaderVars, formVars>>

ToggleClick == "mobileToggle" \in present /\ MenuClick("toggle", listeners["toggle"], TRUE)

CloseClick == "mobileClose" \in present /\ MenuClick("close", listeners["close"], FALSE)

\* a click on one of the .mobile-link elements
LinkClick == MenuClick("link", listeners["link"], FALSE)

\* a click on the menu element itself (outside the panel's content): the
\* listener closes the menu only when e.target === DOM.mobileMenu
OutsideClick == "mobileMenu" \in present /\ MenuClick("outside", listeners["menu"], FALSE)

\* a click on the panel's content that is no link: e.target is not the menu
PanelClick ==
  /\ Live /\ "mobileMenu" \in present
  /\ ranBeforeCache' = (ranBeforeCache \/ (listeners["menu"] > 0 /\ cacheCount = 0))
  /\ UNCHANGED <<lifeVars, nullDeref, timers, scrollVars, menuVars, filterVars,
                 sinceClick, lazyVars, loaderVars, formVars>>

\* ------------------------------------------------------- category filter
Matches(card, category) == category = "all" \/ cardCat[card] = category

shouldShowNoWildcard(card, category) == cardCat[card] = category

\* shouldShow, as filterBikes computes it
shouldShow(card, category) == category = "all" \/ cardCat[card] = category

\* filterBikes(category) on the filter's state f = [display, opacity, timers]:
\* the cards are visited in document order
RECURSIVE filterBikesFrom(_, _, _)
filterBikesFrom(card, category, f) ==
  IF card > NumCards THEN f
  ELSE filterBikesFrom(card + 1, category,
         IF shouldShow(card, category)
         THEN [f EXCEPT !.display[card] = "block", !.opacity[card] = "1"]
         ELSE [f EXCEPT !.opacity[card] = "0",
                        !.timers = Append(@, Timer("hide", FilterDelay, card, FALSE))])

filterBikes(category, f) == IF ~DOM["bikeCards"] THEN f ELSE filterBikesFrom(1, category, f)

clickListenerKeepActive(btn, f) ==
  filterBikes(btn, [f EXCEPT !.active = @ \cup {btn}])

\* one click listener of a filter button: the button alone is made active and
\* the bikes are filtered by its data-category
clickListener(btn, f) ==
  filterBikes(btn, [f EXCEPT !.active = (@ \ Buttons) \cup {btn}])

RECURSIVE ClickN(_, _, _)
ClickN(n, btn, f) == IF n = 0 THEN f ELSE ClickN(n - 1, btn, clickListener(btn, f))

\* the hide timers pending before a click are from an earlier click
MarkStale(tms) ==
  [i \in 1..Len(tms) |-> IF tms[i].fn = "hide" THEN [tms[i] EXCEPT !.flag = TRUE] ELSE tms[i]]

FilterClick(btn) ==
  /\ Live
  /\ LET f == ClickN(listeners["filter"], btn,
                     [active |-> btnActive, display |-> display, opacity |-> opacity,
                      timers |-> MarkStale(timers)])
     IN /\ Len(f.timers) <= MaxTimers
        /\ btnActive' = f.active
        /\ display' = f.display
        /\ opacity' = f.opacity
        /\ timers' = f.timers
  /\ lastFilter' = btn
  /\ sinceClick' = 0
  /\ overlapped' = (overlapped \/ Pending("hide") # {})
  /\ clicks' = Min(clicks + 1, 2)
  /\ ranBeforeCache' = (ranBeforeCache \/ (listeners["filter"] > 0 /\ cacheCount = 0))
  /\ UNCHANGED <<lifeVars, nullDeref, cardCat, lastHide, scrollVars, menuVars,
                 lazyVars, loaderVars, formVars>>

\* a hide timer is due: card.style.display = 'none'
FireHide ==
  /\ FirstDue # 0 /\ timers[FirstDue].fn = "hide"
  /\ LET t == timers[FirstDue]
     IN /\ display' = [display EXCEPT ![t.arg] = "none"]
        /\ lastHide' = [stale |-> t.flag,
                        matched |-> lastFilter # "none" /\ Matches(t.arg, lastFilter)]
  /\ timers' = Remove(timers, FirstDue)
  /\ Ran
  /\ UNCHANGED <<lifeVars, nullDeref, btnActive, cardCat, opacity, lastFilter, overlapped,
                 clicks, sinceClick, scrollVars, menuVars, lazyVars, loaderVars, formVars>>

Visible == {c \in Cards : display[c] # "none"}

\* ------------------------------------------------------------ lazy images
entryHandlerNoCheck(obs, img, isIntersecting, z) ==
  IF isIntersecting
  THEN [dataSrc |-> [z.dataSrc EXCEPT ![img] = "removed"],
        srcSet |-> [z.srcSet EXCEPT ![img] = Min(@ + 1, 2)],
        observed |-> z.observed \ {<<obs, img>>}]
  ELSE z

\* the observer callback on one entry, on the images' state z
entryHandler(obs, img, isIntersecting, z) ==
  IF isIntersecting
  THEN IF z.dataSrc[img] = "url"
       THEN [dataSrc |-> [z.dataSrc EXCEPT ![img] = "removed"],
             srcSet |-> [z.srcSet EXCEPT ![img] = Min(@ + 1, 2)],
             observed |-> z.observed \ {<<obs, img>>}]
       ELSE z
  ELSE z

\* observer obs reports image img; an entry queued before unobserve is still
\* delivered
ObserverCallback(obs, img, isIntersecting) ==
  /\ Live /\ <<obs, img>> \in targets
  /\ LET z == entryHandler(obs, img, isIntersecting,
                           [dataSrc |-> dataSrc, srcSet |-> srcSet, observed |-> observed])
     IN /\ dataSrc' = z.dataSrc
        /\ srcSet' = z.srcSet
        /\ observed' = z.observed
  /\ lastEntry' = [obs |-> obs, img |-> img, isIntersecting |-> isIntersecting,
                   tick |-> ~lastEntry.tick]
  /\ Ran
  /\ UNCHANGED <<lifeVars, nullDeref, timers, hasIO, targets, scrollVars, menuVars,
                 filterVars, sinceClick, loaderVars, formVars>>

\* ---------------------------------------------------------------- loader
RECURSIVE ArmN(_, _, _)
ArmN(n, t, tms) == IF n = 0 THEN tms ELSE ArmN(n - 1, t, Append(tms, t))

\* the window's load event: each load listener arms the loader's timeout
Load ==
  /\ Live /\ ~autoPending /\ ~loadFired
  /\ Len(timers) + listeners["load"] <= MaxTimers
  /\ loadFired' = TRUE
  /\ timers' = ArmN(listeners["load"], Timer("loader", loadingDelay, 0, FALSE), timers)
  /\ Ran
  /\ UNCHANGED <<lifeVars, nullDeref, loaderOpacity, loaderDisplay, scrollVars, menuVars,
                 filterVars, sinceClick, lazyVars, formVars>>

loaderTimeoutNoGuard == TRUE

\* the guard of the loader's timeout callback: if (DOM.loader)
loaderTimeout == DOM["loader"]

\* the loader's timeout is due: the loader fades, and its removal is armed
FireLoader ==
  /\ FirstDue # 0 /\ timers[FirstDue].fn = "loader"
  /\ IF loaderTimeout
     THEN /\ nullDeref' = (nullDeref \/ ~DOM["loader"])
          /\ loaderOpacity' = IF DOM["loader"] THEN "0" ELSE loaderOpacity
          /\ timers' = Append(Remove(timers, FirstDue), Timer("fade", LoaderFade, 0, FALSE))
     ELSE /\ timers' = Remove(timers, FirstDue)
          /\ UNCHANGED <<nullDeref, loaderOpacity>>
  /\ Ran
  /\ UNCHANGED <<lifeVars, loaderDisplay, loadFired, scrollVars, menuVars, filterVars,
                 sinceClick, lazyVars, formVars>>

\* the inner timeout is due: DOM.loader.style.display = 'none'
FireFade ==
  /\ FirstDue # 0 /\ timers[FirstDue].fn = "fade"
  /\ nullDeref' = (nullDeref \/ ~DOM["loader"])
  /\ loaderDisplay' = IF DOM["loader"] THEN "none" ELSE loaderDisplay
  /\ timers' = Remove(timers, FirstDue)
  /\ Ran
  /\ UNCHANGED <<lifeVars, loaderOpacity, loadFired, scrollVars, menuVars, filterVars,
                 sinceClick, lazyVars, formVars>>

\* ---------------------------------------------------------- contact form
\* the visitor types into the form
FillForm ==
  /\ Live /\ "contactForm" \in present /\ ~formFilled
  /\ formFilled' = TRUE
  /\ UNCHANGED <<lifeVars, ranBeforeCache, nullDeref, timers, navigated, scrollVars,
                 menuVars, filterVars, sinceClick, lazyVars, loaderVars>>

\* submit: each listener prevents the default, alerts and resets the form; with
\* no listener the browser navigates
Submit ==
  /\ Live /\ "contactForm" \in present
  /\ formFilled' = IF listeners["submit"] > 0 THEN FALSE ELSE formFilled
  /\ navigated' = (navigated \/ listeners["submit"] = 0)
  /\ ranBeforeCache' = (ranBeforeCache \/ (listeners["submit"] > 0 /\ cacheCount = 0))
  /\ UNCHANGED <<lifeVars, nullDeref, timers, scrollVars, menuVars, filterVars,
                 sinceClick, lazyVars, loaderVars>>

\* ------------------------------------------------------------------ time
\* d ms pass: no pending timer is due before they have passed
Advance(d) ==
  /\ d > 0
  /\ \A i \in 1..Len(timers) : timers[i].rem >= d
  /\ timers' = [i \in 1..Len(timers) |-> [timers[i] EXCEPT !.rem = @ - d]]
  /\ quiet' = [fn \in {"nav", "btt"} |->
                IF calls[fn] THEN Min(quiet[fn] + d, Wait(fn)) ELSE quiet[fn]]
  /\ sinceClick' = IF lastFilter # "none" THEN Min(sinceClick + d, FilterDelay) ELSE sinceClick
  /\ UNCHANGED <<lifeVars, ranBeforeCache, nullDeref, scrollY, navScrolled, bttVisible,
                 calls, runs, burst, menuVars, filterVars, lazyVars, loaderVars, formVars>>

\* the time until the next pending timer is due
NextDue == CHOOSE d \in {timers[i].rem : i \in 1..Len(timers)} :
             \A i \in 1..Len(timers) : timers[i].rem >= d

\* time passes until the next timer is due
AdvanceToNext == timers # <<>> /\ Advance(NextDue)

\* ----------------------------------------------------------------- Init
LifeInit(docs) ==
  /\ present \in docs
  /\ DOM = [n \in Ids \cup Lists |-> FALSE]
  /\ inits = 0 /\ cacheCount = 0
  /\ autoPending = TRUE /\ unloaded = FALSE
  /\ ranBeforeCache = FALSE /\ nullDeref = FALSE
  /\ listeners = [k \in ListenerKinds |-> 0]
  /\ scrollL = {}
  /\ timers = <<>>

ScrollInit(markup) ==
  /\ scrollY \in {0, backToTopThreshold + 1}
  /\ navScrolled \in markup /\ bttVisible \in markup
  /\ calls = [fn \in {"nav", "btt"} |-> FALSE]
  /\ quiet = [fn \in {"nav", "btt"} |-> 0]
  /\ runs = [fn \in {"nav", "btt"} |-> 0]
  /\ burst = [fn \in {"nav", "btt"} |-> 0]

MenuInit(markup) ==
  /\ menuActive \in markup
  /\ bodyOverflow = ""
  /\ lastMenuClick = "none"

FilterInit(cats, markup) ==
  /\ btnActive \in markup
  /\ cardCat \in cats
  /\ display = [c \in Cards |-> ""]
  /\ opacity = [c \in Cards |-> ""]
  /\ lastFilter = "none"
  /\ sinceClick = 0
  /\ overlapped = FALSE
  /\ clicks = 0
  /\ lastHide = [stale |-> FALSE, matched |-> FALSE]

LazyInit(io, srcs) ==
  /\ hasIO \in io
  /\ dataSrc \in srcs
  /\ srcSet = [i \in Images |-> 0]
  /\ targets = {} /\ observed = {}
  /\ lastEntry = [obs |-> 0, img |-> 0, isIntersecting |-> FALSE, tick |-> FALSE]

LoaderInit ==
  /\ loaderOpacity = "" /\ loaderDisplay = "" /\ loadFired = FALSE

FormInit ==
  /\ formFilled = FALSE /\ navigated = FALSE

\* ----------------------------------------------------- the scroll effects
ScrollSteps == {NavWait, BttWait - NavWait}

InitScroll ==
  /\ LifeInit({Ids, Ids \ {"navbar"}, Ids \ {"backToTop"}})
  /\ ScrollInit(BOOLEAN)
  /\ MenuInit({FALSE})
  /\ FilterInit({[c \in Cards |-> "trail"]}, {{"all"}})
  /\ LazyInit({FALSE}, {[i \in Images |-> "url"]})
  /\ LoaderInit /\ FormInit

NextScroll ==
  \/ AutoInit
  \/ UserInit
  \/ BeforeUnload
  \/ \E y \in Offsets : Scroll(y)
  \/ BackToTopClick
  \/ FireNav
  \/ FireBtt
  \/ \E d \in ScrollSteps : Advance(d)
  \/ AdvanceToNext

SpecScroll == InitScroll /\ [][NextScroll]_vars

\* ------------------------------------------------------ the mobile menu
InitMenu ==
  /\ LifeInit({Ids \ s : s \in SUBSET {"mobileToggle", "mobileMenu", "mobileClose"}})
  /\ ScrollInit({FALSE})
  /\ MenuInit(BOOLEAN)
  /\ FilterInit({[c \in Cards |-> "trail"]}, {{"all"}})
  /\ LazyInit({FALSE}, {[i \in Images |-> "url"]})
  /\ LoaderInit /\ FormInit

NextMenu ==
  \/ AutoInit
  \/ UserInit
  \/ BeforeUnload
  \/ ToggleClick
  \/ CloseClick
  \/ LinkClick
  \/ OutsideClick
  \/ PanelClick

SpecMenu == InitMenu /\ [][NextMenu]_vars

\* --------------------------------------------------- the category filter
FilterSteps == {100}

\* the cards' categories, up to renaming the two categories
CardMarkup == {f \in [Cards -> Categories] : f[1] = "trail"}

InitFilter ==
  /\ LifeInit({Ids})
  /\ ScrollInit({FALSE})
  /\ MenuInit({FALSE})
  /\ FilterInit(CardMarkup, {{"all"}, Categories})
  /\ LazyInit({FALSE}, {[i \in Images |-> "url"]})
  /\ LoaderInit /\ FormInit

NextFilter ==
  \/ AutoInit
  \/ UserInit
  \/ BeforeUnload
  \/ \E b \in Buttons : FilterClick(b)
  \/ FireHide
  \/ \E d \in FilterSteps : Advance(d)
  \/ AdvanceToNext

SpecFilter == InitFilter /\ [][NextFilter]_vars

\* --------------------------------------------------------- the lazy images
InitLazy ==
  /\ LifeInit({Ids})
  /\ ScrollInit({FALSE})
  /\ MenuInit({FALSE})
  /\ FilterInit({[c \in Cards |-> "trail"]}, {{"all"}})
  /\ LazyInit(BOOLEAN, [Images -> {"url", ""}])
  /\ LoaderInit /\ FormInit

NextLazy ==
  \/ AutoInit
  \/ UserInit
  \/ BeforeUnload
  \/ \E obs \in 1..MaxInits, img \in Images, b \in BOOLEAN : ObserverCallback(obs, img, b)

SpecLazy == InitLazy /\ [][NextLazy]_vars

\* ------------------------------------------- the page with elements absent
\* the document lacks one of the expected elements, none, or all; the visitor
\* scrolls before the load event or after the loading screen is gone
LoaderIdle == Pending("loader") \cup Pending("fade") = {}

InitPage ==
  /\ LifeInit({Ids, {}} \cup {Ids \ {e} : e \in Ids})
  /\ ScrollInit({FALSE})
  /\ MenuInit({FALSE})
  /\ FilterInit({[c \in Cards |-> "trail"]}, {{"all"}})
  /\ LazyInit({FALSE}, {[i \in Images |-> "url"]})
  /\ LoaderInit /\ FormInit

NextPage ==
  \/ AutoInit
  \/ UserInit
  \/ BeforeUnload
  \/ \E y \in {0, backToTopThreshold + 1} : LoaderIdle /\ Scroll(y)
  \/ LoaderIdle /\ BackToTopClick
  \/ FireNav
  \/ FireBtt
  \/ ToggleClick
  \/ CloseClick
  \/ LinkClick
  \/ OutsideClick
  \/ Load
  \/ FireLoader
  \/ FireFade
  \/ FillForm
  \/ Submit
  \/ AdvanceToNext

SpecPage == InitPage /\ [][NextPage]_vars

\* C3: whenever the navbar debounce has settled (the debounced handler has been
\* called at least once and none of its timers is pending), the navbar has the
\* class 'scrolled' exactly when the scroll offset is greater than 50.
C3_NavbarThreshold ==
  (DOM["navbar"] /\ calls["nav"] /\ Pending("nav") = {})
    => (navScrolled <=> scrollY > scrollThreshold)

\* the debounce settled exactly on the threshold, and the class is off
C3_Witness ==
  /\ DOM["navbar"] /\ calls["nav"] /\ Pending("nav") = {} /\ runs["nav"] = 1
  /\ scrollY = scrollThreshold /\ ~navScrolled

\* C4: whenever the back-to-top debounce has settled, the button has the class
\* 'visible' exactly when the scroll offset is greater than 300.
C4_BackToTopThreshold ==
  (DOM["backToTop"] /\ calls["btt"] /\ Pending("btt") = {})
    => (bttVisible <=> scrollY > backToTopThreshold)

\* the debounce settled exactly on the threshold, and the class is off
C4_Witness ==
  /\ DOM["backToTop"] /\ calls["btt"] /\ Pending("btt") = {} /\ runs["btt"] = 1
  /\ scrollY = backToTopThreshold /\ ~bttVisible

\* C9: for each debounced handler, at most one timer is pending; the pending
\* timer is the one armed by the latest call, with a full wait counted from that
\* call; the wrapped function has run at most once since the latest call, and
\* only after a full wait without a call; once no timer is pending it has run
\* exactly once since the last call of the burst.
C9_Debounce ==
  \A fn \in {"nav", "btt"} :
    /\ Cardinality(Pending(fn)) <= 1
    /\ \A i \in Pending(fn) :
         /\ timers[i].flag
         /\ timers[i].rem + quiet[fn] = Wait(fn)
         /\ runs[fn] = 0
    /\ runs[fn] <= 1
    /\ runs[fn] = 1 => quiet[fn] = Wait(fn)
    /\ (calls[fn] /\ Pending(fn) = {}) => runs[fn] = 1

\* for both handlers, a burst of at least two calls ended in exactly one run
C9_Witness ==
  /\ burst["btt"] = 2 /\ Pending("btt") = {} /\ runs["btt"] = 1
  /\ burst["nav"] = 2 /\ Pending("nav") = {} /\ runs["nav"] = 1

\* C8: when the mobile menu element exists, after any sequence of toggle, close,
\* menu-link and outside-panel clicks the menu has the class 'active' exactly when
\* the body's overflow is 'hidden', and exactly when the most recent of those
\* clicks was on the toggle button.
C8_MenuLock ==
  ("mobileMenu" \in present /\ lastMenuClick # "none")
    => /\ menuActive <=> bodyOverflow = "hidden"
       /\ menuActive <=> lastMenuClick = "toggle"

\* the menu was opened and then closed again by a click outside the panel, with
\* the listeners registered twice
C8_Witness ==
  /\ "mobileMenu" \in present /\ lastMenuClick = "outside" /\ inits = 2
  /\ ~menuActive /\ bodyOverflow = ""

\* C1: once 300 ms have passed since the most recent filter click and every due
\* timer has fired, the visible cards are exactly those the clicked category
\* matches (all of them for 'all').
C1_FilterAfterDelay ==
  (lastFilter # "none" /\ sinceClick >= FilterDelay /\ FirstDue = 0)
    => Visible = {c \in Cards : Matches(c, lastFilter)}

\* C2: after a filter-button click exactly one filter button is active, the one
\* that was clicked.
C2_OneActive == lastFilter # "none" => btnActive = {lastFilter}

\* a category button was clicked while the hide timers of an earlier click were
\* still pending
C2_Witness ==
  /\ lastFilter = "trail" /\ btnActive = {"trail"} /\ overlapped
  /\ \E i \in Pending("hide") : timers[i].flag

\* a hide timer leaves the queue only by firing, which hides its card
HideTimersKept ==
  \/ Cardinality(Pending("hide"))' >= Cardinality(Pending("hide"))
  \/ /\ FirstDue # 0 /\ timers[FirstDue].fn = "hide"
     /\ timers' = Remove(timers, FirstDue)
     /\ display'[timers[FirstDue].arg] = "none"

\* C10: if no filter click has come while a hide timer of an earlier click was
\* pending, then once no hide timer is pending the visible cards are exactly
\* those matching the clicked category; a hide timer is never cancelled, and a
\* card matching the current category is hidden only by a timer that an earlier
\* click armed and that fires after a later click.
C10_NoOverlap ==
  /\ []((lastFilter # "none" /\ ~overlapped /\ Pending("hide") = {})
          => Visible = {c \in Cards : Matches(c, lastFilter)})
  /\ [](lastHide.matched => lastHide.stale)
  /\ [][HideTimersKept]_vars

\* two clicks apart, the second one's timers fired: a card is hidden and only
\* the matching cards show
C10_Witness ==
  /\ lastFilter = "sport" /\ clicks = 2 /\ ~overlapped /\ Pending("hide") = {}
  /\ \E c \in Cards : display[c] = "none"
  /\ \E c \in Cards : display[c] = "block"

\* a step in which the observer callback handled an entry
EntryStep == lastEntry'.tick # lastEntry.tick

\* C5: for every image with data-src, src is assigned from data-src at most
\* once, only by a callback that reports the image as intersecting, and in that
\* step data-src is removed and the reporting observer stops observing the
\* image; a report that is not intersecting changes nothing.
C5_LazyOnce ==
  /\ [](\A img \in Images :
          /\ srcSet[img] <= 1
          /\ srcSet[img] = 1 <=> dataSrc[img] = "removed")
  /\ [][\A img \in Images :
          /\ srcSet'[img] # srcSet[img] =>
               /\ EntryStep /\ lastEntry'.img = img /\ lastEntry'.isIntersecting
               /\ srcSet'[img] = srcSet[img] + 1
               /\ dataSrc[img] = "url" /\ dataSrc'[img] = "removed"
               /\ <<lastEntry'.obs, img>> \in observed
               /\ <<lastEntry'.obs, img>> \notin observed'
          /\ (EntryStep /\ ~lastEntry'.isIntersecting) =>
               UNCHANGED <<dataSrc, srcSet, observed>>]_vars

\* image 1 was loaded on the first observer's report, and the second observer
\* then reported it as intersecting too
C5_Witness ==
  /\ srcSet[1] = 1 /\ dataSrc[1] = "removed"
  /\ <<1, 1>> \in targets \ observed
  /\ lastEntry.obs = 2 /\ lastEntry.img = 1 /\ lastEntry.isIntersecting

\* C6: with an expected element absent, no handler dereferences a null cache
\* entry, the absent element's feature is left alone, and every feature whose
\* element is present behaves as it does on the full page: the navbar and the
\* back-to-top button follow the scroll offset, the menu follows the clicks,
\* the loader is hidden after the load event, and a submit never navigates.
C6_AbsentSafe ==
  /\ ~nullDeref
  /\ "navbar" \notin present => ~navScrolled
  /\ "backToTop" \notin present => (~bttVisible /\ ~calls["btt"])
  /\ "mobileMenu" \notin present => (~menuActive /\ bodyOverflow = "")
  /\ "loader" \notin present =>
       (loaderOpacity = "" /\ loaderDisplay = "" /\ Pending("fade") = {})
  /\ ("navbar" \in present /\ calls["nav"] /\ Pending("nav") = {})
       => (navScrolled <=> scrollY > scrollThreshold)
  /\ ("backToTop" \in present /\ calls["btt"] /\ Pending("btt") = {})
       => (bttVisible <=> scrollY > backToTopThreshold)
  /\ ("mobileMenu" \in present /\ lastMenuClick # "none")
       => (menuActive <=> lastMenuClick = "toggle")
  /\ ("loader" \in present /\ loadFired /\ LoaderIdle)
       => (loaderOpacity = "0" /\ loaderDisplay = "none")
  /\ "contactForm" \in present => ~navigated

\* the menu element is absent: the toggle button was clicked, the page was
\* scrolled and loaded, and every timer has fired
C6_Witness ==
  /\ "mobileMenu" \notin present /\ lastMenuClick = "toggle"
  /\ loadFired /\ calls["btt"] /\ timers = <<>>
  /\ navScrolled /\ bttVisible /\ loaderDisplay = "none"

\* C7: the element cache is populated exactly once, and before any handler or
\* timer callback of the script runs, also when a module user invokes the
\* exported init.
C7_CachedOnce == cacheCount <= 1 /\ ~ranBeforeCache

====
